---- MODULE Spec2Model ----
(***************************************************************************)
(* Model of the ConnectHer sponsor backend: the sponsor routes             *)
(* (routes/sponsors.js), the Sponsor schema (models/Sponsor.js) and the    *)
(* upload pipeline (POST /api/upload).                                     *)
(*                                                                         *)
(* Spec       : every sponsor request runs to completion in one step.      *)
(* SpecConc   : a request is split at its awaits: findById (Begin...) and  *)
(*              save (Finish), so requests on one sponsor interleave.      *)
(* SpecUpload : one upload request, one step per await / fs call.          *)
(***************************************************************************)
EXTENDS Integers, Sequences, FiniteSets, TLC

\* ---------------------------------------------------------------- bounds
MaxSponsors == 2
MaxPosts == 2
MaxCount == 2
MaxReqs == 5
MaxConc == 2
MaxFiles == 3

\* ---------------------------------------------------------------- values
Undefined == "<undefined>"
Null == "<null>"
NoId == 0

BodyStrings == {Undefined, "", "a"}
AddStrings == {Undefined, "b"}
Files == {Null, "f"}
CompanyNames == {Undefined, "", "Acme"}
Kinds == {"image", "video", "raw"}

SponsorIds == 1..MaxSponsors
PostIds == 1..MaxPosts
Slots == 1..MaxConc

VARIABLES store, nextSponsorId, nextPostId, notifications, resp, nreq, inflight,
          files, idx, pc, disk, remote, uploadedFiles, upResp, processed

svars == <<store, nextSponsorId, nextPostId, notifications, resp, nreq, inflight>>
uvars == <<files, idx, pc, disk, remote, uploadedFiles, upResp, processed>>
vars == <<store, nextSponsorId, nextPostId, notifications, resp, nreq, inflight,
          files, idx, pc, disk, remote, uploadedFiles, upResp, processed>>

\* ------------------------------------------------------------ JS helpers
\* JavaScript truthiness of a string-or-undefined value: if (req.body.caption)
Truthy(v) == v /= Undefined /\ v /= Null /\ v /= ""

\* property read on a plain object: a missing property reads as undefined
GetId(obj) == IF "_id" \in DOMAIN obj THEN obj._id ELSE NoId

\* `http://localhost:3000/uploads/${req.file.filename}` or null without a file
MediaUrl(file) == IF file = Null THEN Null ELSE "http://localhost:3000/uploads/" \o file

NoDoc == [companyName |-> Undefined, posts |-> <<>>, postCount |-> 0, v |-> 0, exists |-> FALSE]

\* Sponsor.findById: the stored document or null
FindById(sid) == IF sid \in SponsorIds /\ store[sid].exists THEN store[sid] ELSE NoDoc

\* sponsor.posts.id(postId) / posts.findIndex(p => p._id.toString() === postId):
\* position of the post in the list, 0 when no post has that id
PostIndex(posts, pid) ==
  IF \E i \in 1..Len(posts) : posts[i]._id = pid
  THEN CHOOSE i \in 1..Len(posts) : posts[i]._id = pid /\ \A j \in 1..(i-1) : posts[j]._id /= pid
  ELSE 0

\* SponsorSchema: companyName { type: String, required: true }
ValidSponsor(companyName) == companyName /= Undefined /\ companyName /= ""

\* PostSchema cast of a pushed plain object: fresh _id, defaults views/clicks 0
CastPost(post, id) ==
  [_id |-> id, caption |-> post.caption, jobLink |-> post.jobLink, media |-> post.media,
   views |-> post.views, clicks |-> 0]

NoPatch == [k \in {} |-> 0]
NoDelta == [push |-> <<>>, hasArr |-> FALSE, arr |-> <<>>, pidx |-> 0, patch |-> NoPatch,
            hasCount |-> FALSE, count |-> 0, v |-> 0]

RemoveAt(s, i) == SubSeq(s, 1, i-1) \o SubSeq(s, i+1, Len(s))

\* ------------------------------------------------- document persistence
\* doc.save() on a loaded document sends only what the handler modified:
\*   push         -> $push, version incremented, no version condition
\*   splice       -> $set of the whole array, version condition and increment
\*   posts[i].f=x -> $set posts.i.f, version condition, no increment
\* and fails (VersionError / DocumentNotFoundError) when no stored document
\* matches the condition.
NeedsWhere(d) == d.hasArr \/ DOMAIN d.patch /= {}
NeedsInc(d) == d.hasArr \/ d.push /= <<>>
IsModified(d) == NeedsWhere(d) \/ NeedsInc(d) \/ d.hasCount

ApplyPatch(posts, i, patch) ==
  [j \in 1..Len(posts) |->
     IF j = i THEN [k \in DOMAIN posts[j] |-> IF k \in DOMAIN patch THEN patch[k] ELSE posts[j][k]]
     ELSE posts[j]]

SaveOk(cur, d) ==
  \/ ~IsModified(d)
  \/ /\ cur.exists
     /\ NeedsWhere(d) => cur.v = d.v

SavedDoc(cur, d) ==
  IF ~IsModified(d) THEN cur
  ELSE LET base == IF d.hasArr THEN d.arr ELSE cur.posts
           patched == IF DOMAIN d.patch /= {} /\ d.pidx <= Len(base)
                      THEN ApplyPatch(base, d.pidx, d.patch) ELSE base
       IN [cur EXCEPT !.posts = patched \o d.push,
                      !.postCount = IF d.hasCount THEN d.count ELSE cur.postCount,
                      !.v = IF NeedsInc(d) THEN cur.v + 1 ELSE cur.v]

\* ------------------------------------------------------ handler bodies
\* The synchronous part of each handler between findById and save: the
\* response status when it returns early, else the modification to save.
Req(op, sid, pid, status, d, notifPostId) ==
  [op |-> op, sid |-> sid, pid |-> pid, status |-> status, d |-> d, notifPostId |-> notifPostId]

Idle == Req("idle", 0, 0, 0, NoDelta, NoId)

\* mutant: the count is bumped once more after taking the length
PostCountOffByOne(posts) == Len(posts) + 1

\* sponsor.postCount = sponsor.posts.length
PostCountOf(posts) == Len(posts)

\* the plain object built by the add-post handler (it has no _id property)
NewPost(caption, jobLink, file) ==
  [caption |-> caption, jobLink |-> jobLink, media |-> MediaUrl(file), views |-> 0]

AddPostLocal(sponsor, sid, caption, jobLink, file, newId) ==
  IF ~sponsor.exists THEN Req("addPost", sid, 0, 404, NoDelta, NoId)
  ELSE LET post == NewPost(caption, jobLink, file)
           sub == CastPost(post, newId)
           count == PostCountOf(Append(sponsor.posts, sub))
       IN Req("addPost", sid, newId, 200,
              [NoDelta EXCEPT !.push = <<sub>>, !.hasCount = (count /= sponsor.postCount),
                              !.count = count, !.v = sponsor.v],
              GetId(post))

\* if (req.body.caption) post.caption = req.body.caption; ... if (req.file) ...
UpdatePatch(post, caption, jobLink, file) ==
  LET keys == {k \in {"caption", "jobLink", "media"} :
                 \/ k = "caption" /\ Truthy(caption) /\ post.caption /= caption
                 \/ k = "jobLink" /\ Truthy(jobLink) /\ post.jobLink /= jobLink
                 \/ k = "media" /\ file /= Null /\ post.media /= MediaUrl(file)}
  IN [k \in keys |-> IF k = "caption" THEN caption
                     ELSE IF k = "jobLink" THEN jobLink ELSE MediaUrl(file)]

UpdatePostLocal(sponsor, sid, pid, caption, jobLink, file) ==
  LET i == PostIndex(sponsor.posts, pid) IN
  IF ~sponsor.exists \/ i = 0 THEN Req("updatePost", sid, pid, 404, NoDelta, NoId)
  ELSE Req("updatePost", sid, pid, 200,
           [NoDelta EXCEPT !.pidx = i, !.v = sponsor.v,
                           !.patch = UpdatePatch(sponsor.posts[i], caption, jobLink, file)],
           NoId)

\* mutant: the postIndex === -1 check is missing
PostFoundAlways(i) == TRUE

\* if (postIndex === -1) return 404
PostFound(i) == i /= 0

\* sponsor.posts.splice(postIndex, 1); position 0 stands for the index -1,
\* where splice removes the last element
SplicePost(posts, i) ==
  IF i = 0 THEN SubSeq(posts, 1, Len(posts) - 1) ELSE RemoveAt(posts, i)

DeletePostLocal(sponsor, sid, pid) ==
  LET i == PostIndex(sponsor.posts, pid) IN
  IF ~sponsor.exists \/ ~PostFound(i) THEN Req("deletePost", sid, pid, 404, NoDelta, NoId)
  ELSE LET posts == SplicePost(sponsor.posts, i)
           count == PostCountOf(posts)
       IN Req("deletePost", sid, pid, 200,
              [NoDelta EXCEPT !.hasArr = TRUE, !.arr = posts, !.v = sponsor.v,
                              !.hasCount = (count /= sponsor.postCount), !.count = count],
              NoId)

\* post.views = (post.views || 0) + 1
Increment(n) == n + 1

ViewLocal(sponsor, sid, pid) ==
  LET i == PostIndex(sponsor.posts, pid) IN
  IF ~sponsor.exists \/ i = 0 THEN Req("view", sid, pid, 404, NoDelta, NoId)
  ELSE Req("view", sid, pid, 200,
           [NoDelta EXCEPT !.pidx = i, !.v = sponsor.v,
                           !.patch = [k \in {"views"} |-> Increment(sponsor.posts[i].views)]],
           NoId)

\* mutant: the click handler bumps post.views instead of post.clicks
ClickLocalCountsView(sponsor, sid, pid) ==
  LET i == PostIndex(sponsor.posts, pid) IN
  IF ~sponsor.exists \/ i = 0 THEN Req("click", sid, pid, 404, NoDelta, NoId)
  ELSE Req("click", sid, pid, 302,
           [NoDelta EXCEPT !.pidx = i, !.v = sponsor.v,
                           !.patch = [k \in {"views"} |-> Increment(sponsor.posts[i].views)]],
           NoId)

ClickLocal(sponsor, sid, pid) ==
  LET i == PostIndex(sponsor.posts, pid) IN
  IF ~sponsor.exists \/ i = 0 THEN Req("click", sid, pid, 404, NoDelta, NoId)
  ELSE Req("click", sid, pid, 302,
           [NoDelta EXCEPT !.pidx = i, !.v = sponsor.v,
                           !.patch = [k \in {"clicks"} |-> Increment(sponsor.posts[i].clicks)]],
           NoId)

\* status when save rejects: the handlers with try/catch answer 500, the
\* view and click handlers have none and never answer (status 0)
SaveFailedStatus(op) == IF op \in {"view", "click"} THEN 0 ELSE 500

Response(r, status) == [op |-> r.op, sid |-> r.sid, pid |-> r.pid, status |-> status]

\* await sponsor.save() and what follows it in the handler
Complete(r) ==
  IF r.status = 404
  THEN /\ resp' = Response(r, 404)
       /\ UNCHANGED <<store, notifications>>
  ELSE IF ~SaveOk(store[r.sid], r.d)
  THEN /\ resp' = Response(r, SaveFailedStatus(r.op))
       /\ UNCHANGED <<store, notifications>>
  ELSE /\ store' = [store EXCEPT ![r.sid] = SavedDoc(store[r.sid], r.d)]
       /\ notifications' = IF r.op = "addPost"
                           THEN Append(notifications, [sponsorId |-> r.sid, postId |-> r.notifPostId])
                           ELSE notifications
       /\ resp' = Response(r, r.status)

\* -------------------------------------------------------------- Init
\* res.status(...).json({ success, files }) of the upload handler; status 0: none yet
UploadResponse(status, success, list) == [status |-> status, success |-> success, files |-> list]

NoResp == [op |-> "none", sid |-> 0, pid |-> 0, status |-> 0]

Init ==
  /\ store = [s \in SponsorIds |-> NoDoc]
  /\ nextSponsorId = 1
  /\ nextPostId = 1
  /\ notifications = <<>>
  /\ resp = NoResp
  /\ nreq = 0
  /\ inflight = [k \in Slots |-> Idle]
  /\ files = <<>>
  /\ idx = 0
  /\ pc = "idle"
  /\ disk = {}
  /\ remote = <<>>
  /\ uploadedFiles = <<>>
  /\ upResp = UploadResponse(0, FALSE, <<>>)
  /\ processed = {}

\* ------------------------------------------- requests that never interleave
\* POST /register: new Sponsor({companyName, posts: [], postCount: 0}).save()
Register(companyName) ==
  /\ nreq < MaxReqs
  /\ nreq' = nreq + 1
  /\ IF ~ValidSponsor(companyName)
     THEN /\ resp' = [op |-> "register", sid |-> 0, pid |-> 0, status |-> 500]
          /\ UNCHANGED <<store, nextSponsorId>>
     ELSE /\ nextSponsorId <= MaxSponsors
          /\ store' = [store EXCEPT ![nextSponsorId] =
                         [companyName |-> companyName, posts |-> <<>>, postCount |-> 0,
                          v |-> 0, exists |-> TRUE]]
          /\ nextSponsorId' = nextSponsorId + 1
          /\ resp' = [op |-> "register", sid |-> nextSponsorId, pid |-> 0, status |-> 201]
  /\ UNCHANGED <<nextPostId, notifications, inflight>>
  /\ UNCHANGED uvars

\* DELETE /:id: Sponsor.findByIdAndDelete
DeleteSponsor(sid) ==
  /\ nreq < MaxReqs
  /\ nreq' = nreq + 1
  /\ IF ~FindById(sid).exists
     THEN /\ resp' = [op |-> "deleteSponsor", sid |-> sid, pid |-> 0, status |-> 404]
          /\ UNCHANGED store
     ELSE /\ store' = [store EXCEPT ![sid] = NoDoc]
          /\ resp' = [op |-> "deleteSponsor", sid |-> sid, pid |-> 0, status |-> 200]
  /\ UNCHANGED <<nextSponsorId, nextPostId, notifications, inflight>>
  /\ UNCHANGED uvars

\* ------------------------------------------------ run-to-completion requests
Quiet == \A k \in Slots : inflight[k] = Idle

\* a request served from findById to its response with nothing in between
Serve(r) ==
  /\ Quiet
  /\ nreq < MaxReqs
  /\ nreq' = nreq + 1
  /\ Complete(r)
  /\ UNCHANGED <<nextSponsorId, inflight>>
  /\ UNCHANGED uvars

AddPost(sid, caption, jobLink, file) ==
  /\ FindById(sid).exists => nextPostId <= MaxPosts
  /\ nextPostId' = IF FindById(sid).exists THEN nextPostId + 1 ELSE nextPostId
  /\ Serve(AddPostLocal(FindById(sid), sid, caption, jobLink, file, nextPostId))

UpdatePost(sid, pid, caption, jobLink, file) ==
  /\ UNCHANGED nextPostId
  /\ Serve(UpdatePostLocal(FindById(sid), sid, pid, caption, jobLink, file))

DeletePost(sid, pid) ==
  /\ UNCHANGED nextPostId
  /\ Serve(DeletePostLocal(FindById(sid), sid, pid))

\* counters are capped at MaxCount to keep the state space finite
BelowCap(sid, pid, field) ==
  LET sponsor == FindById(sid)
      i == PostIndex(sponsor.posts, pid)
  IN i /= 0 => sponsor.posts[i][field] < MaxCount

View(sid, pid) ==
  /\ BelowCap(sid, pid, "views")
  /\ UNCHANGED nextPostId
  /\ Serve(ViewLocal(FindById(sid), sid, pid))

Click(sid, pid) ==
  /\ BelowCap(sid, pid, "clicks")
  /\ UNCHANGED nextPostId
  /\ Serve(ClickLocal(FindById(sid), sid, pid))

\* request inputs: every id handed out so far and one id that resolves to
\* nothing; the strings a multipart body can carry for each field
KnownSponsorIds == 1..(IF nextSponsorId < MaxSponsors THEN nextSponsorId ELSE MaxSponsors)
KnownPostIds == 1..(IF nextPostId < MaxPosts THEN nextPostId ELSE MaxPosts)
JobLinks == {Undefined, "a"}

Next ==
  \/ \E n \in CompanyNames : Register(n)
  \/ \E s \in KnownSponsorIds : DeleteSponsor(s)
  \/ \E s \in KnownSponsorIds, c \in AddStrings, f \in Files : AddPost(s, c, "b", f)
  \/ \E s \in KnownSponsorIds, p \in KnownPostIds, c \in BodyStrings, j \in JobLinks, f \in Files :
       UpdatePost(s, p, c, j, f)
  \/ \E s \in KnownSponsorIds, p \in KnownPostIds : DeletePost(s, p)
  \/ \E s \in KnownSponsorIds, p \in KnownPostIds : View(s, p)
  \/ \E s \in KnownSponsorIds, p \in KnownPostIds : Click(s, p)

Spec == Init /\ [][Next]_vars

\* --------------------------------------------------- interleaved requests
\* first half of a request: findById and the synchronous handler body
Begin(k, r) ==
  /\ inflight[k] = Idle
  /\ nreq < MaxReqs
  /\ nreq' = nreq + 1
  /\ inflight' = [inflight EXCEPT ![k] = r]
  /\ UNCHANGED <<store, nextSponsorId, notifications, resp>>
  /\ UNCHANGED uvars

BeginAddPost(k, sid, caption, jobLink, file) ==
  /\ FindById(sid).exists => nextPostId <= MaxPosts
  /\ nextPostId' = IF FindById(sid).exists THEN nextPostId + 1 ELSE nextPostId
  /\ Begin(k, AddPostLocal(FindById(sid), sid, caption, jobLink, file, nextPostId))

BeginUpdatePost(k, sid, pid, caption, jobLink, file) ==
  /\ UNCHANGED nextPostId
  /\ Begin(k, UpdatePostLocal(FindById(sid), sid, pid, caption, jobLink, file))

BeginDeletePost(k, sid, pid) ==
  /\ UNCHANGED nextPostId
  /\ Begin(k, DeletePostLocal(FindById(sid), sid, pid))

BeginView(k, sid, pid) ==
  /\ BelowCap(sid, pid, "views")
  /\ UNCHANGED nextPostId
  /\ Begin(k, ViewLocal(FindById(sid), sid, pid))

BeginClick(k, sid, pid) ==
  /\ BelowCap(sid, pid, "clicks")
  /\ UNCHANGED nextPostId
  /\ Begin(k, ClickLocal(FindById(sid), sid, pid))

\* second half: await sponsor.save(), Notification.create, the response
Finish(k) ==
  /\ inflight[k] /= Idle
  /\ Complete(inflight[k])
  /\ inflight' = [inflight EXCEPT ![k] = Idle]
  /\ UNCHANGED <<nextSponsorId, nextPostId, nreq>>
  /\ UNCHANGED uvars

NextConc ==
  \/ \E n \in CompanyNames : Register(n)
  \/ \E s \in KnownSponsorIds : DeleteSponsor(s)
  \/ \E k \in Slots, s \in KnownSponsorIds, c \in AddStrings :
       BeginAddPost(k, s, c, "b", Null)
  \/ \E k \in Slots, s \in KnownSponsorIds, p \in KnownPostIds, c \in BodyStrings :
       BeginUpdatePost(k, s, p, c, Undefined, Null)
  \/ \E k \in Slots, s \in KnownSponsorIds, p \in KnownPostIds : BeginDeletePost(k, s, p)
  \/ \E k \in Slots, s \in KnownSponsorIds, p \in KnownPostIds : BeginView(k, s, p)
  \/ \E k \in Slots, s \in KnownSponsorIds, p \in KnownPostIds : BeginClick(k, s, p)
  \/ \E k \in Slots : Finish(k)

SpecConc == Init /\ [][NextConc]_vars

\* ------------------------------------------------------ upload pipeline
\* POST /api/upload, one step per await or filesystem call.  Entry i of the
\* request is files[i], its declared kind; local files are named by entry.
RECURSIVE SeqsUpTo(_)
SeqsUpTo(n) ==
  IF n = 0 THEN {<<>>}
  ELSE LET shorter == SeqsUpTo(n - 1)
       IN shorter \cup {Append(q, k) : q \in {x \in shorter : Len(x) = n - 1}, k \in Kinds}

OutputFile(i) == [entry |-> i, role |-> "output"]
TempInput(i) == [entry |-> i, role |-> "input"]

\* mime after compression: image/jpeg, video/mp4, else the declared type
ResolvedType(kind) ==
  IF kind = "image" THEN "image/jpeg" ELSE IF kind = "video" THEN "video/mp4" ELSE kind

\* if (!req.files || req.files.length === 0) return 400; else enter the loop
UploadRequest(fs) ==
  /\ pc = "idle"
  /\ files' = fs
  /\ IF Len(fs) = 0
     THEN /\ upResp' = UploadResponse(400, FALSE, <<>>)
          /\ pc' = "done"
          /\ idx' = 0
          /\ processed' = {}
     ELSE /\ upResp' = upResp
          /\ pc' = "compress"
          /\ idx' = 1
          /\ processed' = {1}
  /\ UNCHANGED <<disk, remote, uploadedFiles>>
  /\ UNCHANGED svars

\* mutant: the error is swallowed per entry and the loop goes on
ContinueAfterError ==
  /\ IF idx < Len(files)
     THEN /\ idx' = idx + 1
          /\ processed' = processed \cup {idx + 1}
          /\ pc' = "compress"
          /\ upResp' = upResp
     ELSE /\ upResp' = UploadResponse(200, TRUE, uploadedFiles)
          /\ pc' = "done"
          /\ UNCHANGED <<idx, processed>>
  /\ UNCHANGED <<files, remote, uploadedFiles>>
  /\ UNCHANGED svars

\* catch (err): res.status(500), the loop is left
Abort ==
  /\ upResp' = UploadResponse(500, FALSE, <<>>)
  /\ pc' = "done"
  /\ UNCHANGED <<files, idx, remote, uploadedFiles, processed>>
  /\ UNCHANGED svars

\* await compressImage(file.buffer, outputPath) resolves
CompressImage ==
  /\ pc = "compress" /\ files[idx] = "image"
  /\ disk' = disk \cup {OutputFile(idx)}
  /\ pc' = "upload"
  /\ UNCHANGED <<files, idx, remote, uploadedFiles, upResp, processed>>
  /\ UNCHANGED svars

\* await compressImage rejects
CompressImageFails ==
  /\ pc = "compress" /\ files[idx] = "image"
  /\ UNCHANGED disk
  /\ Abort

\* compressVideo: fs.writeFileSync(tempInputPath, inputBuffer)
WriteTempInput ==
  /\ pc = "compress" /\ files[idx] = "video"
  /\ disk' = disk \cup {TempInput(idx)}
  /\ pc' = "transcode"
  /\ UNCHANGED <<files, idx, remote, uploadedFiles, upResp, processed>>
  /\ UNCHANGED svars

\* ffmpeg "end": fs.unlinkSync(tempInputPath); resolve()
TranscodeEnd ==
  /\ pc = "transcode"
  /\ disk' = (disk \ {TempInput(idx)}) \cup {OutputFile(idx)}
  /\ pc' = "upload"
  /\ UNCHANGED <<files, idx, remote, uploadedFiles, upResp, processed>>
  /\ UNCHANGED svars

\* ffmpeg "error": fs.unlinkSync(tempInputPath); reject(err)
TranscodeError ==
  /\ pc = "transcode"
  /\ disk' = disk \ {TempInput(idx)}
  /\ Abort

\* any other type: fs.writeFileSync(outputPath, file.buffer)
WriteRaw ==
  /\ pc = "compress" /\ files[idx] \notin {"image", "video"}
  /\ disk' = disk \cup {OutputFile(idx)}
  /\ pc' = "upload"
  /\ UNCHANGED <<files, idx, remote, uploadedFiles, upResp, processed>>
  /\ UNCHANGED svars

\* await uploadToCloudinary(outputPath, "uploads") resolves
UploadToCloudinary ==
  /\ pc = "upload"
  /\ remote' = Append(remote, [public_id |-> idx, type |-> ResolvedType(files[idx])])
  /\ pc' = "unlink"
  /\ UNCHANGED <<files, idx, disk, uploadedFiles, upResp, processed>>
  /\ UNCHANGED svars

\* uploadToCloudinary throws "Cloudinary Upload Failed"
UploadToCloudinaryFails ==
  /\ pc = "upload"
  /\ UNCHANGED disk
  /\ Abort

\* mutant: the local file is never removed
UnlinkNothing(d, i) == d

\* fs.unlinkSync(outputPath)
UnlinkOutput(d, i) == d \ {OutputFile(i)}

\* unlink, uploadedFiles.push, then the next entry or the 200 response
CleanUp ==
  /\ pc = "unlink"
  /\ disk' = UnlinkOutput(disk, idx)
  /\ uploadedFiles' = Append(uploadedFiles,
        [name |-> idx, public_id |-> idx, type |-> ResolvedType(files[idx])])
  /\ IF idx < Len(files)
     THEN /\ idx' = idx + 1
          /\ processed' = processed \cup {idx + 1}
          /\ pc' = "compress"
          /\ upResp' = upResp
     ELSE /\ upResp' = UploadResponse(200, TRUE, uploadedFiles')
          /\ pc' = "done"
          /\ UNCHANGED <<idx, processed>>
  /\ UNCHANGED <<files, remote>>
  /\ UNCHANGED svars

NextUpload ==
  \/ \E fs \in SeqsUpTo(MaxFiles) : UploadRequest(fs)
  \/ CompressImage
  \/ CompressImageFails
  \/ WriteTempInput
  \/ TranscodeEnd
  \/ TranscodeError
  \/ WriteRaw
  \/ UploadToCloudinary
  \/ UploadToCloudinaryFails
  \/ CleanUp

SpecUpload == Init /\ [][NextUpload]_vars

\* ================================================================ claims
Sponsors == {s \in SponsorIds : store[s].exists}
HasPost(doc, p) == \E i \in 1..Len(doc.posts) : doc.posts[i]._id = p
PositionOf(doc, p) == CHOOSE i \in 1..Len(doc.posts) : doc.posts[i]._id = p
PostRequests == {"addPost", "updatePost", "deletePost", "view", "click"}

\* ----------------------------------------------------------------- C1
CountMatchesList == \A s \in Sponsors : store[s].postCount = Len(store[s].posts)

CountStep ==
  /\ (resp'.op = "register" /\ resp'.status = 201) =>
        store'[resp'.sid].postCount = 0 /\ store'[resp'.sid].posts = <<>>
  /\ (resp'.op = "addPost" /\ resp'.status = 200) =>
        /\ store'[resp'.sid].postCount = store[resp'.sid].postCount + 1
        /\ Len(store'[resp'.sid].posts) = Len(store[resp'.sid].posts) + 1
  /\ (resp'.op = "deletePost" /\ resp'.status = 200) =>
        /\ store'[resp'.sid].postCount = store[resp'.sid].postCount - 1
        /\ Len(store'[resp'.sid].posts) = Len(store[resp'.sid].posts) - 1
  /\ resp'.op \in {"updatePost", "view", "click"} =>
        \A s \in SponsorIds : /\ store'[s].postCount = store[s].postCount
                              /\ Len(store'[s].posts) = Len(store[s].posts)

\* C1: when requests run to completion one at a time, every stored sponsor's
\* postCount equals the length of its post list: 0 after register, one more
\* after each successful add-post, one less after each successful delete-post,
\* and untouched by update-post, register-view and register-click.
C1_PostCountEqualsLength == [](CountMatchesList) /\ [][CountStep]_vars

\* a delete-post has succeeded on a sponsor that still holds a post
C1_Witness ==
  /\ resp.op = "deletePost" /\ resp.status = 200
  /\ store[resp.sid].exists
  /\ store[resp.sid].postCount = 1
  /\ Len(store[resp.sid].posts) = 1

\* ----------------------------------------------------------------- C2
CounterStep ==
  /\ (resp'.op = "view" /\ resp'.status = 200) =>
        /\ store' = [store EXCEPT
                       ![resp'.sid].posts[PositionOf(store[resp'.sid], resp'.pid)].views = @ + 1]
        /\ notifications' = notifications
  /\ (resp'.op = "click" /\ resp'.status = 302) =>
        /\ store' = [store EXCEPT
                       ![resp'.sid].posts[PositionOf(store[resp'.sid], resp'.pid)].clicks = @ + 1]
        /\ notifications' = notifications

\* C2: a successful register-view adds exactly 1 to the post's view counter and
\* a successful register-click adds exactly 1 to its click counter; the post's
\* other counter, every other post of any sponsor, the post lists and every
\* postCount stay as they were.
C2_CounterFrame == [][CounterStep]_vars

\* a first click was counted on a post while another sponsor holds a post of
\* its own
C2_Witness ==
  /\ resp.op = "click" /\ resp.status = 302
  /\ \E s \in Sponsors \ {resp.sid} : Len(store[s].posts) > 0
  /\ store[resp.sid].posts[PositionOf(store[resp.sid], resp.pid)].clicks = 1

\* ----------------------------------------------------------------- C3
\* C3: every successful add-post creates exactly one Notification, and it
\* references the sponsor and the id of the post that request appended.
C3_NotificationReferencesPost ==
  [][(resp'.op = "addPost" /\ resp'.status = 200) =>
       /\ Len(notifications') = Len(notifications) + 1
       /\ SubSeq(notifications', 1, Len(notifications)) = notifications
       /\ LET n == notifications'[Len(notifications')]
              posts == store'[resp'.sid].posts
          IN /\ n.sponsorId = resp'.sid
             /\ n.postId /= NoId
             /\ posts[Len(posts)]._id = n.postId]_vars

\* ----------------------------------------------------------------- C4
Unresolved(op, sid, pid) ==
  \/ ~store[sid].exists
  \/ op /= "addPost" /\ ~HasPost(store[sid], pid)

C5_MissingNameIs400 ==
  [][Register(Undefined) => (resp'.status = 400 /\ store' = store)]_vars

\* ----------------------------------------------------------------- C6
Requested(old, caption, jobLink, file) ==
  [old EXCEPT !.caption = IF caption /= Undefined THEN caption ELSE @,
              !.jobLink = IF jobLink /= Undefined THEN jobLink ELSE @,
              !.media = IF file /= Null THEN MediaUrl(file) ELSE @]

\* C6: a successful update-post sets each of caption, jobLink and media that
\* the request carries to the requested value, the empty string included, and
\* changes nothing else.
C6_UpdateSetsPresentFields ==
  [][\A s \in SponsorIds, p \in PostIds, c \in BodyStrings, j \in BodyStrings, f \in Files :
       (UpdatePost(s, p, c, j, f) /\ resp'.status = 200) =>
          store' = [store EXCEPT ![s].posts[PositionOf(store[s], p)] = Requested(@, c, j, f)]]_vars

\* ----------------------------------------------------------------- C7
UploadedIds == {remote[i].public_id : i \in 1..Len(remote)}

\* C7: when entry k of an upload request fails, the answer is the failure
\* response and never a result list, nothing after entry k is compressed or
\* uploaded, and the uploads of entries 1..k-1 are still in the remote store;
\* a success answer is given only when every entry was uploaded.
C7_FailureAbortsAndOrphans ==
  /\ upResp.status = 500 =>
        /\ pc = "done"
        /\ ~upResp.success /\ upResp.files = <<>>
        /\ processed = 1..idx
        /\ UploadedIds = 1..(idx - 1)
        /\ Len(remote) = idx - 1
  /\ upResp.status = 200 =>
        /\ UploadedIds = 1..Len(files)
        /\ Len(upResp.files) = Len(files)
  /\ Len(remote) <= Len(files)

\* the second of three entries failed after the first was uploaded
C7_Witness ==
  /\ upResp.status = 500
  /\ Len(files) = 3 /\ idx = 2
  /\ UploadedIds = {1}

\* ----------------------------------------------------------------- C8
\* C8: once no add-post or delete-post request is under way, every stored
\* sponsor's postCount equals the length of its post list, however the
\* findById and save steps of the requests were interleaved.
C8_CountNeverDiverges == Quiet => CountMatchesList

\* ----------------------------------------------------------------- C9
CounterRequestsOnly ==
  \A k \in Slots : inflight[k].op \in {"idle", "view", "click", "updatePost"}

\* C9: while a post exists and only register-view, register-click and
\* update-post requests are under way, its stored view and click counters
\* never decrease from one state of the store to the next, however the
\* findById and save steps of those requests interleave.
C9_CountersMonotonic ==
  [][\A s \in SponsorIds : \A i \in 1..Len(store[s].posts) : \A j \in 1..Len(store'[s].posts) :
       (/\ CounterRequestsOnly
        /\ store[s].exists /\ store'[s].exists
        /\ store[s].posts[i]._id = store'[s].posts[j]._id) =>
          /\ store'[s].posts[j].views >= store[s].posts[i].views
          /\ store'[s].posts[j].clicks >= store[s].posts[i].clicks]_vars

\* ---------------------------------------------------------------- C10
LocalFilesOfCurrentEntry == \A f \in disk : f.entry = idx

\* C10: when an upload request is answered with success no local file it wrote
\* is left; an entry's compressed output is removed only once that entry is in
\* the remote store, and before the next entry is processed.
C10_LocalFilesCleaned ==
  /\ [](upResp.status = 200 => disk = {})
  /\ [](LocalFilesOfCurrentEntry)
  /\ [](pc = "compress" => disk = {})
  /\ [][\A i \in 1..MaxFiles + 1 :
          (OutputFile(i) \in disk /\ OutputFile(i) \notin disk') => i \in UploadedIds]_vars

\* a request with a video entry followed by another entry was answered 200
C10_Witness ==
  /\ upResp.status = 200
  /\ Len(files) >= 2 /\ files[1] = "video"
  /\ Len(remote) = Len(files)

====
